---- MODULE Spec2Model ----
(***************************************************************************)
(* Model of the inventory inbox server (src/main.rs): the heuristic line   *)
(* parser fake_llm_parse, the append-only CSV ledger append_items_to_csv   *)
(* and the request handler handle_submit that composes them.               *)
(*                                                                         *)
(* Text is modelled as a sequence of one-character strings, so that        *)
(* splitting, trimming, integer parsing and integer formatting are the     *)
(* computations the code performs and not identities.                      *)
(***************************************************************************)
EXTENDS Integers, Sequences, FiniteSets, TLC

\* ------------------------------------------------------------------ bounds

\* Longest input text enumerated exhaustively over Alphabet.
MaxLen == 4

\* ------------------------------------------------------ characters and text

Digits == <<"0", "1", "2", "3", "4", "5", "6", "7", "8", "9">>

\* char::is_ascii_digit
is_ascii_digit(c) == \E i \in 1..10 : Digits[i] = c

\* char::is_whitespace, restricted to the ASCII members of White_Space
is_whitespace(c) == c \in {" ", "\t", "\n", "\r", "\f"}

\* value of an ASCII digit
DigitVal(c) == (CHOOSE i \in 1..10 : Digits[i] = c) - 1

\* i32::MAX and i32::MIN
I32_MAX == 2147483647
I32_MIN == (-I32_MAX) - 1

\* str::strip_suffix for a one-character suffix: <<found, rest>>
strip_suffix(s, c) ==
    IF Len(s) > 0 /\ s[Len(s)] = c
    THEN <<TRUE, SubSeq(s, 1, Len(s) - 1)>>
    ELSE <<FALSE, s>>

\* first index of c in s, 0 when absent
IndexOf(s, c) ==
    IF \E i \in 1..Len(s) : s[i] = c
    THEN CHOOSE i \in 1..Len(s) : s[i] = c /\ \A j \in 1..(i - 1) : s[j] # c
    ELSE 0

\* str::split_inclusive('\n'): pieces keep their terminator; no piece after a
\* final terminator
RECURSIVE split_inclusive(_)
split_inclusive(s) ==
    IF s = <<>> THEN <<>>
    ELSE LET i == IndexOf(s, "\n") IN
         IF i = 0 THEN <<s>>
         ELSE <<SubSeq(s, 1, i)>> \o split_inclusive(SubSeq(s, i + 1, Len(s)))

\* the closure str::lines maps over split_inclusive: drop one "\n", then one "\r"
LinesMapFn(piece) ==
    LET a == strip_suffix(piece, "\n") IN
    IF ~a[1] THEN piece
    ELSE strip_suffix(a[2], "\r")[2]

\* str::lines
lines(s) ==
    LET p == split_inclusive(s) IN [i \in 1..Len(p) |-> LinesMapFn(p[i])]

\* str::trim_start / str::trim_end / str::trim
RECURSIVE trim_start(_)
trim_start(s) ==
    IF s # <<>> /\ is_whitespace(s[1]) THEN trim_start(Tail(s)) ELSE s

RECURSIVE trim_end(_)
trim_end(s) ==
    IF s # <<>> /\ is_whitespace(s[Len(s)])
    THEN trim_end(SubSeq(s, 1, Len(s) - 1)) ELSE s

trim(s) == trim_end(trim_start(s))

\* length of the leading run of non-whitespace characters
RECURSIVE TokenLen(_)
TokenLen(s) ==
    IF s = <<>> \/ is_whitespace(s[1]) THEN 0 ELSE 1 + TokenLen(Tail(s))

\* str::split_whitespace: the maximal non-whitespace runs, in order
RECURSIVE split_whitespace(_)
split_whitespace(s) ==
    LET t == trim_start(s) IN
    IF t = <<>> THEN <<>>
    ELSE LET n == TokenLen(t) IN
         <<SubSeq(t, 1, n)>> \o split_whitespace(SubSeq(t, n + 1, Len(t)))

\* trim_end_matches that strips nothing
trim_end_matches_nothing(s) == s

\* str::trim_end_matches(|c| !c.is_ascii_digit())
RECURSIVE trim_end_matches_non_digit(_)
trim_end_matches_non_digit(s) ==
    IF s # <<>> /\ ~is_ascii_digit(s[Len(s)])
    THEN trim_end_matches_non_digit(SubSeq(s, 1, Len(s) - 1)) ELSE s

\* [T]::join(" ")
RECURSIVE join(_)
join(toks) ==
    IF toks = <<>> THEN <<>>
    ELSE IF Len(toks) = 1 THEN toks[1]
    ELSE toks[1] \o <<" ">> \o join(Tail(toks))

\* The digit loop of i32::from_str for a non-negative literal: checked_mul(10)
\* then checked_add(digit); any non-digit or overflow is an error.
RECURSIVE ParsePos(_, _)
ParsePos(s, acc) ==
    IF s = <<>> THEN [ok |-> TRUE, val |-> acc]
    ELSE IF ~is_ascii_digit(s[1]) THEN [ok |-> FALSE, val |-> 0]
    ELSE LET d == DigitVal(s[1]) IN
         IF acc > I32_MAX \div 10 THEN [ok |-> FALSE, val |-> 0]
         ELSE IF acc * 10 > I32_MAX - d THEN [ok |-> FALSE, val |-> 0]
         ELSE ParsePos(Tail(s), acc * 10 + d)

\* The digit loop for a literal with a leading '-': checked_mul(10) then
\* checked_sub(digit), accumulating downwards to i32::MIN.
RECURSIVE ParseNeg(_, _)
ParseNeg(s, acc) ==
    IF s = <<>> THEN [ok |-> TRUE, val |-> acc]
    ELSE IF ~is_ascii_digit(s[1]) THEN [ok |-> FALSE, val |-> 0]
    ELSE LET d == DigitVal(s[1]) IN
         IF acc < -(I32_MAX \div 10) THEN [ok |-> FALSE, val |-> 0]
         ELSE IF acc * 10 < I32_MIN + d THEN [ok |-> FALSE, val |-> 0]
         ELSE ParseNeg(Tail(s), acc * 10 - d)

\* str::parse::<i32>: empty, or a lone sign, is an error; one leading '+' or
\* '-' is accepted; the rest must be ASCII digits within the i32 range.
parse_i32(s) ==
    IF s = <<>> THEN [ok |-> FALSE, val |-> 0]
    ELSE IF s[1] \in {"+", "-"} /\ Len(s) = 1 THEN [ok |-> FALSE, val |-> 0]
    ELSE IF s[1] = "+" THEN ParsePos(Tail(s), 0)
    ELSE IF s[1] = "-" THEN ParseNeg(Tail(s), 0)
    ELSE ParsePos(s, 0)

\* ------------------------------------------------------------------ parser

\* struct Item
Item(n, q) == [name |-> n, quantity |-> q]

\* ParseLine with a default quantity of 0 where the code has 1
ParseLineDefaultZero(line) ==
    LET parts == split_whitespace(line)
        first == IF parts = <<>> THEN <<>> ELSE parts[1]
        qty   == parse_i32(trim_end_matches_non_digit(first))
    IN  IF qty.ok
        THEN LET name == join(IF parts = <<>> THEN <<>> ELSE Tail(parts)) IN
             Item(IF name = <<>> THEN line ELSE name, qty.val)
        ELSE Item(line, 0)

\* ParseLine without the fallback to the whole line for an empty name
ParseLineNoFallback(line) ==
    LET parts == split_whitespace(line)
        first == IF parts = <<>> THEN <<>> ELSE parts[1]
        qty   == parse_i32(trim_end_matches_non_digit(first))
    IN  IF qty.ok
        THEN Item(join(IF parts = <<>> THEN <<>> ELSE Tail(parts)), qty.val)
        ELSE Item(line, 1)

\* the closure of fake_llm_parse applied to one trimmed, non-empty line
ParseLine(line) ==
    LET parts == split_whitespace(line)
        first == IF parts = <<>> THEN <<>> ELSE parts[1]
        qty   == parse_i32(trim_end_matches_non_digit(first))
    IN  IF qty.ok
        THEN LET name == join(IF parts = <<>> THEN <<>> ELSE Tail(parts)) IN
             Item(IF name = <<>> THEN line ELSE name, qty.val)
        ELSE Item(line, 1)

\* the lines without the filter on empty lines
SurvivingLinesNoFilter(raw) ==
    LET l == lines(raw) IN [i \in 1..Len(l) |-> trim(l[i])]

\* raw.lines().map(str::trim).filter(|line| !line.is_empty())
SurvivingLines(raw) ==
    LET l == lines(raw) IN
    SelectSeq([i \in 1..Len(l) |-> trim(l[i])], LAMBDA x : x # <<>>)

\* fn fake_llm_parse(raw: &str) -> Vec<Item>
fake_llm_parse(raw) ==
    LET s == SurvivingLines(raw) IN [i \in 1..Len(s) |-> ParseLine(s[i])]

\* ------------------------------------------------------------------ ledger

\* Decimal digits of a non-negative integer, most significant first.
RECURSIVE DigitsOf(_)
DigitsOf(n) ==
    IF n < 10 THEN <<Digits[n + 1]>>
    ELSE DigitsOf(n \div 10) \o <<Digits[(n % 10) + 1]>>

\* Decimal digits of the magnitude of a negative integer; works on -(n + 1)
\* so that i32::MIN needs no value outside the i32 range.
NegDigitsOf(n) ==
    LET m    == -(n + 1)
        last == ((m % 10) + 1) % 10
        rest == IF m % 10 = 9 THEN (m \div 10) + 1 ELSE m \div 10
    IN  IF rest = 0 THEN <<Digits[last + 1]>>
        ELSE DigitsOf(rest) \o <<Digits[last + 1]>>

\* <i32 as Display>::fmt: a '-' for negative values, then the decimal digits
display_i32(n) == IF n < 0 THEN <<"-">> \o NegDigitsOf(n) ELSE DigitsOf(n)

\* the pieces with the name written before the quantity
FragmentsNameFirst(item) ==
    <<item.name, <<",">>, display_i32(item.quantity), <<"\n">>>>

\* writeln!(file, "{},{}", item.quantity, item.name): io::Write::write_fmt on
\* an unbuffered File passes each piece of the format to its own write_all,
\* in this order: the quantity, the comma, the name, the line terminator.
Fragments(item) == <<display_i32(item.quantity), <<",">>, item.name, <<"\n">>>>

\* str::replace for a one-character pattern
RECURSIVE replace(_, _, _)
replace(s, c, r) ==
    IF s = <<>> THEN <<>>
    ELSE (IF s[1] = c THEN r ELSE <<s[1]>>) \o replace(Tail(s), c, r)

\* fn html_escape(s: &str) -> String
html_escape(s) ==
    replace(replace(replace(s, "&", <<"&", "a", "m", "p", ";">>),
                    "<", <<"&", "l", "t", ";">>),
            ">", <<"&", "g", "t", ";">>)

\* the <li> entries handle_submit renders, one per item: the quantity as
\* printed and the escaped name (the fixed page text around them is omitted)
RenderItems(its) ==
    [i \in 1..Len(its) |->
        <<display_i32(its[i].quantity), html_escape(its[i].name)>>]

\* ------------------------------------------------------------------ inputs

\* characters of the exhaustively enumerated input texts
Alphabet == {"3", "0", "a", " ", "\n", "-", "+"}

\* every text over Alphabet of length at most n
AllTexts(n) == UNION {[1..len -> Alphabet] : len \in 0..n}

\* longer texts: the examples of the parser's comment, and texts at the
\* edges of the i32 range and with CRLF line endings
Ex_Screws ==
    <<"3", " ", "b", "o", "x", "e", "s", " ", "o", "f", " ", "s", "c", "r",
      "e", "w", "s">>
Ex_Brush ==
    <<"2", "x", " ", "p", "a", "i", "n", "t", " ", "b", "r", "u", "s", "h">>
Ex_Hammer ==
    <<"h", "a", "m", "m", "e", "r">>
Ex_Bare ==
    <<"4", "2">>
Ex_BareX ==
    <<"2", "x">>
Ex_Minus ==
    <<"-", "3", " ", "n", "a", "i", "l", "s">>
Ex_EndToEnd ==
    <<"3", " ", "b", "o", "x", "e", "s", " ", "o", "f", " ", "s", "c", "r",
      "e", "w", "s", "\n", "2", "x", " ", "p", "a", "i", "n", "t", " ", "b",
      "r", "u", "s", "h", "\n", "h", "a", "m", "m", "e", "r", "\n", "\n">>
Ex_I32Max ==
    <<"2", "1", "4", "7", "4", "8", "3", "6", "4", "7", " ", "a">>
Ex_I32MaxPlus1 ==
    <<"2", "1", "4", "7", "4", "8", "3", "6", "4", "8", " ", "a">>
Ex_I32Min ==
    <<"-", "2", "1", "4", "7", "4", "8", "3", "6", "4", "8", " ", "a">>
Ex_I32MinMinus1 ==
    <<"-", "2", "1", "4", "7", "4", "8", "3", "6", "4", "9", " ", "a">>
Ex_Huge ==
    <<"9", "9", "9", "9", "9", "9", "9", "9", "9", "9", "9", " ", "a">>
Ex_Crlf ==
    <<"a", ",", "b", "\r", "\n", " ", "\t", "\r", "\n", "7", " ", " ", "b",
      " ", "\t", " ", "c", "\r", "\n">>

Examples ==
    {Ex_Screws, Ex_Brush, Ex_Hammer, Ex_Bare,
     Ex_BareX, Ex_Minus, Ex_EndToEnd, Ex_I32Max,
     Ex_I32MaxPlus1, Ex_I32Min, Ex_I32MinMinus1, Ex_Huge,
     Ex_Crlf}

\* the texts handed to fake_llm_parse
Inputs == AllTexts(MaxLen) \cup Examples

\* the texts submitted to the server while another request is in flight
Sub_One == <<"3", " ", "a">>
Sub_Neg == <<"-", "1", " ", "d">>
Sub_Blank == <<" ", "\n">>

Submissions == {Sub_One, Sub_Neg, Sub_Blank}

\* the texts submitted to the server one request at a time
Sub_Two == <<"b", "\n", "2", "x", " ", "c">>
Sub_Esc == <<"7", " ", "<", "b", ">", "\n", "\n", "a", "&", "b", ",", "c">>

SeqSubmissions == {Sub_One, Sub_Neg, Sub_Blank, Sub_Two, Sub_Esc, Ex_EndToEnd}

\* the record batches handed directly to append_items_to_csv
It_A == Item(<<"a">>, 3)
It_Neg == Item(<<"b", " ", "c">>, -12)
It_Comma == Item(<<"x", ",", "y">>, 10)
It_Min == Item(<<"m">>, I32_MIN)
It_Max == Item(<<"M">>, I32_MAX)
It_NoName == Item(<<>>, 0)
It_Newline == Item(<<"n", "\n", "7">>, 1)

Batches ==
    {<<>>, <<It_A>>, <<It_A, It_Neg>>, <<It_Comma, It_A>>, <<It_Min, It_Max>>,
     <<It_NoName>>, <<It_Newline>>}

\* the states "inventory.csv" may be in when the server starts: absent, or
\* left by an earlier run
InitialFiles ==
    {[exists |-> FALSE, data |-> <<>>],
     [exists |-> TRUE, data |-> <<"1", ",", "z", "\n">>]}

\* concurrent handle_submit tasks of the multi-threaded runtime (#[tokio::main])
Procs == {1, 2}

\* requests accepted by the server in one run
MaxRequests == 2

\* direct calls of append_items_to_csv in one run
MaxCalls == 2

\* ------------------------------------------------------------------- state

VARIABLES
    raw,      \* fake_llm_parse: the argument
    parsed,   \* fake_llm_parse: the returned Vec<Item>
    called,   \* fake_llm_parse: whether it has returned
    file,     \* "inventory.csv": whether it exists, and its bytes
    pc,       \* per task: idle, open, write, ret (append returned), done
    text,     \* per task: input.text
    items,    \* per task: the items handed to append_items_to_csv
    k,        \* per task: index of the item the for loop is writing
    frag,     \* per task: index of the piece of the line written next
    res,      \* per task: the io::Result of append_items_to_csv
    base,     \* per task: the bytes of the file when the task opened it
    html,     \* per task: the <li> entries of the page returned
    stderr,   \* number of "Failed to write CSV" lines printed
    calls,    \* log of the returned append_items_to_csv calls, in order
    nreq      \* number of requests (or direct calls) started

pvars == <<raw, parsed, called>>
svars == <<file, pc, text, items, k, frag, res, base, html, stderr, calls, nreq>>
vars == <<raw, parsed, called, file, pc, text, items, k, frag, res, base, html,
          stderr, calls, nreq>>

ServerInit ==
    /\ file \in InitialFiles
    /\ pc = [p \in Procs |-> "idle"]
    /\ text = [p \in Procs |-> <<>>]
    /\ items = [p \in Procs |-> <<>>]
    /\ k = [p \in Procs |-> 0]
    /\ frag = [p \in Procs |-> 0]
    /\ res = [p \in Procs |-> "none"]
    /\ base = [p \in Procs |-> <<>>]
    /\ html = [p \in Procs |-> <<>>]
    /\ stderr = 0
    /\ calls = <<>>
    /\ nreq = 0

\* ------------------------------------------------------ parser as a function

InitParser ==
    /\ raw \in Inputs
    /\ parsed = <<>>
    /\ called = FALSE
    /\ ServerInit

\* let items = fake_llm_parse(&input.text)
CallParse ==
    /\ ~called
    /\ parsed' = fake_llm_parse(raw)
    /\ called' = TRUE
    /\ UNCHANGED <<raw, svars>>

NextParser == CallParse

SpecParser == InitParser /\ [][NextParser]_vars

\* ------------------------------------------------------ append_items_to_csv

\* a write at the start of a file opened without append(true)
overwrite_write(data, bytes) ==
    bytes \o SubSeq(data, Len(bytes) + 1, Len(data))

\* a write to a file opened with append(true): the bytes land after the
\* current end of the file
append_write(data, bytes) == data \o bytes

\* the entry logged when a call returns: the caller, the batch, the result
\* and the bytes the file held when the call opened it
CallRecord(p, its, r, b) == [proc |-> p, items |-> its, res |-> r, base |-> b]

\* OpenOptions::new().create(true).append(true).open(path)? succeeds: the
\* file now exists, with the bytes it had; an empty batch returns Ok at once
OpenOk(p) ==
    /\ pc[p] = "open"
    /\ file' = [file EXCEPT !.exists = TRUE]
    /\ base' = [base EXCEPT ![p] = file.data]
    /\ IF items[p] = <<>>
       THEN /\ pc' = [pc EXCEPT ![p] = "ret"]
            /\ res' = [res EXCEPT ![p] = "ok"]
            /\ k' = [k EXCEPT ![p] = 1]
            /\ frag' = [frag EXCEPT ![p] = 1]
            /\ calls' = Append(calls,
                   CallRecord(p, items[p], "ok", file.data))
       ELSE /\ pc' = [pc EXCEPT ![p] = "write"]
            /\ k' = [k EXCEPT ![p] = 1]
            /\ frag' = [frag EXCEPT ![p] = 1]
            /\ UNCHANGED <<res, calls>>
    /\ UNCHANGED <<pvars, text, items, html, stderr, nreq>>

\* open(path)? fails: the error is returned, nothing is created or written
OpenFail(p) ==
    /\ pc[p] = "open"
    /\ pc' = [pc EXCEPT ![p] = "ret"]
    /\ res' = [res EXCEPT ![p] = "err"]
    /\ k' = [k EXCEPT ![p] = 0]
    /\ frag' = [frag EXCEPT ![p] = 0]
    /\ base' = [base EXCEPT ![p] = file.data]
    /\ calls' = Append(calls, CallRecord(p, items[p], "err", file.data))
    /\ UNCHANGED <<pvars, file, text, items, html, stderr, nreq>>

\* one write_all of writeln! succeeds; after the last piece of the last
\* item the loop ends and Ok(()) is returned
WriteOk(p) ==
    /\ pc[p] = "write"
    /\ LET fs   == Fragments(items[p][k[p]])
           data == append_write(file.data, fs[frag[p]])
           last == frag[p] = Len(fs)
       IN  /\ file' = [file EXCEPT !.data = data]
           /\ frag' = [frag EXCEPT ![p] = IF last THEN 1 ELSE frag[p] + 1]
           /\ k' = [k EXCEPT ![p] = IF last THEN k[p] + 1 ELSE k[p]]
           /\ IF last /\ k[p] = Len(items[p])
              THEN /\ pc' = [pc EXCEPT ![p] = "ret"]
                   /\ res' = [res EXCEPT ![p] = "ok"]
                   /\ calls' = Append(calls,
                          CallRecord(p, items[p], "ok", base[p]))
              ELSE UNCHANGED <<pc, res, calls>>
    /\ UNCHANGED <<pvars, text, items, base, html, stderr, nreq>>

\* one write_all of writeln! fails (an empty piece makes no system call and
\* cannot fail): `?` returns the error, the rest of the batch is not written
WriteFail(p) ==
    /\ pc[p] = "write"
    /\ Fragments(items[p][k[p]])[frag[p]] # <<>>
    /\ pc' = [pc EXCEPT ![p] = "ret"]
    /\ res' = [res EXCEPT ![p] = "err"]
    /\ calls' = Append(calls, CallRecord(p, items[p], "err", base[p]))
    /\ UNCHANGED <<pvars, file, text, items, k, frag, base, html, stderr, nreq>>

\* a caller invokes append_items_to_csv("inventory.csv", &b)
Call(p, b) ==
    /\ pc[p] \in {"idle", "ret"}
    /\ nreq < MaxCalls
    /\ nreq' = nreq + 1
    /\ items' = [items EXCEPT ![p] = b]
    /\ pc' = [pc EXCEPT ![p] = "open"]
    /\ res' = [res EXCEPT ![p] = "none"]
    /\ UNCHANGED <<pvars, file, text, k, frag, base, html, stderr, calls>>

InitLedger ==
    /\ raw = <<>>
    /\ parsed = <<>>
    /\ called = FALSE
    /\ ServerInit

\* one caller, so the calls form a sequence
NextLedger ==
    \/ \E b \in Batches : Call(1, b)
    \/ OpenOk(1)
    \/ OpenFail(1)
    \/ WriteOk(1)
    \/ WriteFail(1)

SpecLedger == InitLedger /\ [][NextLedger]_vars

\* ------------------------------------------------------------ handle_submit

\* a page that lists the items only when they were saved
HandlerPageOkOnly(its, r) == IF r = "err" THEN <<>> ELSE RenderItems(its)

\* the list rendered into the page, given the items and the append result
HandlerPage(its, r) == RenderItems(its)

\* a request arrives: let items = fake_llm_parse(&input.text), then the call
\* of append_items_to_csv starts
Submit(p, t) ==
    /\ pc[p] \in {"idle", "done"}
    /\ nreq < MaxRequests
    /\ nreq' = nreq + 1
    /\ text' = [text EXCEPT ![p] = t]
    /\ items' = [items EXCEPT ![p] = fake_llm_parse(t)]
    /\ pc' = [pc EXCEPT ![p] = "open"]
    /\ res' = [res EXCEPT ![p] = "none"]
    /\ html' = [html EXCEPT ![p] = <<>>]
    /\ UNCHANGED <<pvars, file, k, frag, base, stderr, calls>>

\* if let Err(e) = ... { eprintln!(...) }, then the page is built and returned
Respond(p) ==
    /\ pc[p] = "ret"
    /\ stderr' = IF res[p] = "err" THEN stderr + 1 ELSE stderr
    /\ html' = [html EXCEPT ![p] = HandlerPage(items[p], res[p])]
    /\ pc' = [pc EXCEPT ![p] = "done"]
    /\ UNCHANGED <<pvars, file, text, items, k, frag, res, base, calls, nreq>>

\* requests arrive one at a time, on one task
NextHandler ==
    \/ \E t \in SeqSubmissions : Submit(1, t)
    \/ OpenOk(1)
    \/ OpenFail(1)
    \/ WriteOk(1)
    \/ WriteFail(1)
    \/ Respond(1)

SpecHandler == InitLedger /\ [][NextHandler]_vars

Init ==
    /\ raw = <<>>
    /\ parsed = <<>>
    /\ called = FALSE
    /\ ServerInit

Next ==
    \E p \in Procs :
        \/ \E t \in Submissions : Submit(p, t)
        \/ OpenOk(p)
        \/ OpenFail(p)
        \/ WriteOk(p)
        \/ WriteFail(p)
        \/ Respond(p)

Spec == Init /\ [][Next]_vars

\* ================================================================= claims

\* ----------------------------------------------- reference notions of a line

\* number of newline characters of a text
NlCount(t) == Cardinality({i \in 1..Len(t) : t[i] = "\n"})

\* index of the j-th newline; 0 before the first, Len + 1 after the last
NlPos(t, j) ==
    IF j = 0 THEN 0
    ELSE IF j > NlCount(t) THEN Len(t) + 1
    ELSE CHOOSE i \in 1..Len(t) :
            t[i] = "\n" /\ Cardinality({m \in 1..i : t[m] = "\n"}) = j

\* the j-th newline-separated segment of a text
Segment(t, j) == SubSeq(t, NlPos(t, j - 1) + 1, NlPos(t, j) - 1)

IsBlank(s) == \A i \in 1..Len(s) : is_whitespace(s[i])

\* indices of the segments with a non-whitespace character
NonBlankIdx(t) == {j \in 1..(NlCount(t) + 1) : ~IsBlank(Segment(t, j))}

\* the n-th such segment, cut down to its first..last non-whitespace character
TrimmedLine(t, n) ==
    LET j  == CHOOSE j \in NonBlankIdx(t) :
                 Cardinality({m \in NonBlankIdx(t) : m <= j}) = n
        s  == Segment(t, j)
        ix == {i \in 1..Len(s) : ~is_whitespace(s[i])}
        lo == CHOOSE i \in ix : \A m \in ix : i <= m
        hi == CHOOSE i \in ix : \A m \in ix : m <= i
    IN  SubSeq(s, lo, hi)

\* a text without its whitespace characters
Squeeze(s) == SelectSeq(s, LAMBDA c : ~is_whitespace(c))

IsSuffix(a, b) ==
    Len(a) <= Len(b) /\ SubSeq(b, Len(b) - Len(a) + 1, Len(b)) = a

IsPrefix(a, b) == Len(a) <= Len(b) /\ SubSeq(b, 1, Len(a)) = a

\* the whitespace-separated tokens of the n-th surviving line
TokensOf(t, n) == split_whitespace(TrimmedLine(t, n))

\* a token up to and including its last digit
UpToLastDigit(tok) ==
    LET ix == {i \in 1..Len(tok) : is_ascii_digit(tok[i])} IN
    IF ix = {} THEN <<>>
    ELSE SubSeq(tok, 1, CHOOSE i \in ix : \A m \in ix : m <= i)

\* the digits of a literal without its sign and its leading zeros
Magnitude(s) ==
    LET d  == IF s # <<>> /\ s[1] \in {"+", "-"} THEN Tail(s) ELSE s
        nz == {i \in 1..Len(d) : d[i] # "0"}
    IN  IF nz = {} THEN <<"0">>
        ELSE SubSeq(d, CHOOSE i \in nz : \A m \in nz : i <= m, Len(d))

\* a <= b for digit strings of the same length
DigitsLeq(a, b) ==
    \/ a = b
    \/ \E i \in 1..Len(a) :
          /\ DigitVal(a[i]) < DigitVal(b[i])
          /\ \A m \in 1..(i - 1) : a[m] = b[m]

TenDigitsMax == <<"2", "1", "4", "7", "4", "8", "3", "6", "4", "7">>
TenDigitsMin == <<"2", "1", "4", "7", "4", "8", "3", "6", "4", "8">>

\* an optional sign and one or more digits, naming a value of the i32 range
IsI32Literal(s) ==
    LET d == IF s # <<>> /\ s[1] \in {"+", "-"} THEN Tail(s) ELSE s
        m == Magnitude(s)
    IN  /\ d # <<>>
        /\ \A i \in 1..Len(d) : is_ascii_digit(d[i])
        /\ \/ Len(m) < 10
           \/ /\ Len(m) = 10
              /\ DigitsLeq(m, IF s[1] = "-" THEN TenDigitsMin ELSE TenDigitsMax)

\* the canonical decimal text of the value a literal names
Canonical(s) ==
    IF s[1] = "-" /\ Magnitude(s) # <<"0">>
    THEN <<"-">> \o Magnitude(s) ELSE Magnitude(s)

\* the n-th surviving line has a leading integer token
HasLeadingInt(t, n) == IsI32Literal(UpToLastDigit(TokensOf(t, n)[1]))

\* ------------------------------------------------------------ parser claims

\* C3: for every surviving line whose first token, cut after its last digit,
\* is an integer (of the quantity type), and which has a further token, the
\* record's quantity is that integer and its name is tokens 2..N joined by
\* single spaces.
C3_LeadingInteger ==
    called =>
        \A n \in 1..Len(parsed) :
            LET toks == TokensOf(raw, n) IN
            (HasLeadingInt(raw, n) /\ Len(toks) >= 2) =>
                /\ display_i32(parsed[n].quantity)
                       = Canonical(UpToLastDigit(toks[1]))
                /\ split_whitespace(parsed[n].name) = Tail(toks)
                /\ \A i \in 1..Len(parsed[n].name) :
                       is_whitespace(parsed[n].name[i]) =>
                           /\ parsed[n].name[i] = " "
                           /\ 1 < i /\ i < Len(parsed[n].name)
                           /\ parsed[n].name[i + 1] # " "

\* "2x a" is read as quantity 2, name "a"
C3_Witness ==
    /\ called
    /\ raw = Ex_Brush
    /\ parsed = <<Item(<<"p", "a", "i", "n", "t", " ", "b", "r", "u", "s", "h">>, 2)>>

\* C4: for every surviving line whose first token, cut after its last digit,
\* is no integer of the i32 range, the record is quantity 1 with the whole
\* trimmed line as its name.
C4_DefaultQuantity ==
    called =>
        \A n \in 1..Len(parsed) :
            ~HasLeadingInt(raw, n) =>
                parsed[n] = Item(TrimmedLine(raw, n), 1)

\* a first token one past i32::MAX is no quantity
C4_Witness ==
    /\ called
    /\ raw = Ex_I32MaxPlus1
    /\ parsed = <<Item(Ex_I32MaxPlus1, 1)>>

\* C5: every record has a quantity >= 0; a leading '-' of the first token is
\* not part of the number that becomes the quantity.
C5_NonNegative ==
    called => \A n \in 1..Len(parsed) : parsed[n].quantity >= 0

\* C6: every record has a non-empty name; when the first token is a quantity
\* and no token follows it, the name is the whole trimmed line.
C6_NameNeverEmpty ==
    called =>
        \A n \in 1..Len(parsed) :
            /\ parsed[n].name # <<>>
            /\ (HasLeadingInt(raw, n) /\ Len(TokensOf(raw, n)) = 1) =>
                   parsed[n].name = TrimmedLine(raw, n)

\* "42" is read as quantity 42, name "42"
C6_Witness ==
    /\ called
    /\ raw = Ex_Bare
    /\ parsed = <<Item(<<"4", "2">>, 42)>>

\* C7: one record per line that is non-empty after trimming, in line order
\* (each record's name is the tail of its own line), none for blank lines;
\* an empty text gives no record.
C7_OneRecordPerLine ==
    called =>
        /\ Len(parsed) = Cardinality(NonBlankIdx(raw))
        /\ \A n \in 1..Len(parsed) :
               IsSuffix(Squeeze(parsed[n].name), Squeeze(TrimmedLine(raw, n)))
        /\ (raw = <<>> => parsed = <<>>)

\* three records from five lines, two of them blank
C7_Witness ==
    /\ called
    /\ raw = Ex_EndToEnd
    /\ Len(parsed) = 3
    /\ parsed[1].quantity = 3 /\ parsed[2].quantity = 2
    /\ parsed[3] = Item(Ex_Hammer, 1)

\* ------------------------------------------------------------ ledger claims

\* the bytes of the line of one record: <quantity>,<name><newline>
LineOf(item) == display_i32(item.quantity) \o <<",">> \o item.name \o <<"\n">>

\* the lines of a batch, in its order
RECURSIVE BatchBytes(_)
BatchBytes(b) == IF b = <<>> THEN <<>> ELSE LineOf(b[1]) \o BatchBytes(Tail(b))

\* the items of the logged calls, in call order
RECURSIVE LoggedItems(_)
LoggedItems(log) ==
    IF log = <<>> THEN <<>> ELSE log[1].items \o LoggedItems(Tail(log))

\* every call so far has returned Ok
AllOk == \A i \in 1..Len(calls) : calls[i].res = "ok"

\* no call is between its open and its return
Quiet == \A p \in Procs : pc[p] \notin {"open", "write"}

\* C1: after a sequence of successful appends the file holds what it held
\* before the first of them, then the lines of the batches in call order,
\* each batch in its own order; no step removes or rewrites bytes already in
\* the file, and a file that did not exist is created empty.
C1_Content ==
    (Quiet /\ AllOk /\ calls # <<>>) =>
        /\ file.exists
        /\ file.data = calls[1].base \o BatchBytes(LoggedItems(calls))

C1_Step ==
    /\ IsPrefix(file.data, file'.data)
    /\ (file.exists => file'.exists)
    /\ (~file.exists /\ file'.exists) => file'.data = <<>>

\* C1: the content after successful appends, and the append-only steps
C1_AppendOrder == []C1_Content /\ [][C1_Step]_vars

\* [A, Neg] then [Comma, A], appended to a file that did not exist
C1_Witness ==
    /\ Len(calls) = 2 /\ AllOk /\ Quiet
    /\ calls[1].items = <<It_A, It_Neg>>
    /\ calls[2].items = <<It_Comma, It_A>>
    /\ file.data = <<"3", ",", "a", "\n", "-", "1", "2", ",", "b", " ", "c",
                     "\n", "1", "0", ",", "x", ",", "y", "\n", "3", ",", "a",
                     "\n">>

\* one line read back: split at the first comma, the quantity parsed as i32
ReadRecord(line) ==
    LET i == IndexOf(line, ",")
        q == parse_i32(SubSeq(line, 1, i - 1))
    IN  IF i = 0 \/ ~q.ok THEN [malformed |-> line]
        ELSE Item(SubSeq(line, i + 1, Len(line)), q.val)

\* the records read back from the lines of the file (a last line without its
\* terminator is read as a line too)
ReadBack(data) ==
    LET n == IF Segment(data, NlCount(data) + 1) # <<>>
             THEN NlCount(data) + 1 ELSE NlCount(data)
    IN  [j \in 1..n |-> ReadRecord(Segment(data, j))]

\* the name has neither the delimiter nor a line terminator
CleanName(n) == \A i \in 1..Len(n) : n[i] \notin {",", "\n", "\r"}

\* C9: when no name has a comma or a line terminator, reading back the lines
\* written by successful appends, split at the first comma, gives the same
\* (quantity, name) pairs in the same order.
C9_RoundTrip ==
    LET its == LoggedItems(calls) IN
    (Quiet /\ AllOk /\ calls # <<>>
        /\ \A i \in 1..Len(its) : CleanName(its[i].name)) =>
        /\ IsPrefix(calls[1].base, file.data)
        /\ ReadBack(SubSeq(file.data, Len(calls[1].base) + 1, Len(file.data)))
               = its

\* the extremes of i32, then two more records, read back from the file
C9_Witness ==
    /\ Len(calls) = 2 /\ AllOk /\ Quiet
    /\ calls[1].items = <<It_Min, It_Max>>
    /\ calls[2].items = <<It_A, It_Neg>>
    /\ ReadBack(file.data) = <<It_Min, It_Max, It_A, It_Neg>>

\* C10: when append fails while writing record k, the file holds what it
\* held before the call followed by the lines of records 1..k-1, and when
\* the open fails (k = 0) nothing is written.
C10_WholeLinesOnFailure ==
    (pc[1] = "ret" /\ res[1] = "err") =>
        file.data = base[1] \o BatchBytes(SubSeq(items[1], 1, k[1] - 1))

\* ---------------------------------------------------------- handler claims

\* number of logged calls that returned an error
ErrCount == Cardinality({i \in 1..Len(calls) : calls[i].res = "err"})

\* C8: the page handle_submit returns lists the parsed records, in content
\* and order, whether append_items_to_csv returned Ok or Err; a failure is
\* logged once and the append is not called again for that request.
C8_PageIndependentOfSave ==
    /\ \A p \in Procs :
           pc[p] = "done" => html[p] = RenderItems(fake_llm_parse(text[p]))
    /\ stderr = ErrCount - (IF pc[1] = "ret" /\ res[1] = "err" THEN 1 ELSE 0)
    /\ Len(calls) = nreq - (IF pc[1] \in {"open", "write"} THEN 1 ELSE 0)

\* the second line failed to be written, both records are on the page
C8_Witness ==
    /\ pc[1] = "done" /\ res[1] = "err" /\ k[1] = 2
    /\ text[1] = Sub_Two
    /\ html[1] = <<<< <<"1">>, <<"b">> >>, << <<"2">>, <<"c">> >>>>
    /\ stderr = 1

\* ------------------------------------------------------ concurrency claims

\* C2: when concurrent appends have all returned Ok, every line of the file
\* is the complete line of one record (or a line the file held at start).
C2_LineAtomicity ==
    (Quiet /\ AllOk) =>
        /\ Segment(file.data, NlCount(file.data) + 1) = <<>>
        /\ \A j \in 1..NlCount(file.data) :
               \/ \E f \in InitialFiles :
                      f.data = Segment(file.data, j) \o <<"\n">>
               \/ \E i \in 1..Len(LoggedItems(calls)) :
                      LineOf(LoggedItems(calls)[i])
                          = Segment(file.data, j) \o <<"\n">>

====
